---- MODULE Spec2Model ----
(***************************************************************************)
(* A model of the as-slice crate (src/src/lib.rs): the traits AsSlice and  *)
(* AsMutSlice and their implementations for [T], [T; N], &S and &mut S.    *)
(*                                                                         *)
(* Memory is a flat run of cells.  An array value [T; N] lives at an       *)
(* address and has its length N in its type; a slice [T] is reached by a   *)
(* fat pointer (ptr, len); a reference value points at its referent.  A    *)
(* view (&[T] or &mut [T]) is a fat pointer plus its mutability.           *)
(***************************************************************************)
EXTENDS Integers, Sequences, FiniteSets, TLC

\* Bounds of the model.
MemSize == 3        \* number of memory cells
MaxVal == 1         \* element values are 0..MaxVal
MaxDepth == 2       \* deepest chain of references built over the buffer

Val == 0..MaxVal
Addr == 0..(MemSize - 1)

VARIABLES
    mem,      \* memory: Addr -> Val
    direct,   \* the memory the same writes produce when made through R itself
    base,     \* the buffer R: an array or a slice over mem
    refs,     \* refs[k]: the k-th reference layer over R (1 = innermost)
    view,     \* the view returned by the last call, NoView when none is live
    op,       \* the last operation performed
    rcv,      \* the receiver of the last call: 0 = R, k = refs[k]
    widx,     \* index of the last write through the view
    wval,     \* value of the last write through the view
    afterWrite, \* the last call followed a write through the same receiver
    len0      \* the length of R at construction

vars == <<mem, direct, base, refs, view, op, rcv, widx, wval, afterWrite, len0>>

NoView == [ptr |-> 0, len |-> 0, mutbl |-> FALSE, live |-> FALSE]

\* The buffers: an array [T; N] at addr, or a slice [T] behind (ptr, len).
Arrays == {[kind |-> "array", addr |-> a, n |-> n] :
              a \in 0..MemSize, n \in 0..MemSize}
Slices == {[kind |-> "slice", ptr |-> p, len |-> l] :
              p \in 0..MemSize, l \in 0..MemSize}

InBounds(b) ==
    IF b.kind = "array" THEN b.addr + b.n <= MemSize
                        ELSE b.ptr + b.len <= MemSize

\* The element count of a buffer: N of [T; N], the len of a slice's pointer.
LenOf(b) == IF b.kind = "array" THEN b.n ELSE b.len

\* The place expression b[i] (0-based) in memory m.
ElemOf(b, i, m) == IF b.kind = "array" THEN m[b.addr + i] ELSE m[b.ptr + i]

\* Index i of a view, read in memory m.
ViewIndex(v, i, m) == m[v.ptr + i]

\* The elements of a view as a sequence.
ViewElems(v, m) == [i \in 1..v.len |-> m[v.ptr + i - 1]]

(***************************************************************************)
(* The implementations.                                                    *)
(***************************************************************************)

\* A slip: the view starts at the start of memory instead of at self.
SliceAsSlice_Base(s) == [ptr |-> 0, len |-> s.len, mutbl |-> FALSE, live |-> TRUE]

\* impl<T> AsSlice for [T]: fn as_slice(&self) -> &[T] { self }
SliceAsSlice(s) == [ptr |-> s.ptr, len |-> s.len, mutbl |-> FALSE, live |-> TRUE]

\* A slip: the mutable view of a slice drops the last element.
SliceAsMutSlice_Short(s) ==
    [ptr |-> s.ptr, len |-> IF s.len > 0 THEN s.len - 1 ELSE 0,
     mutbl |-> TRUE, live |-> TRUE]

\* impl<T> AsMutSlice for [T]: fn as_mut_slice(&mut self) -> &mut [T] { self }
SliceAsMutSlice(s) == [ptr |-> s.ptr, len |-> s.len, mutbl |-> TRUE, live |-> TRUE]

\* A slip: the view of an array is one element short of N.
ArrayAsSlice_Short(a) ==
    [ptr |-> a.addr, len |-> IF a.n > 0 THEN a.n - 1 ELSE 0,
     mutbl |-> FALSE, live |-> TRUE]

\* impl<T, const N: usize> AsSlice for [T; N]: self, unsized to &[T] of length N
ArrayAsSlice(a) == [ptr |-> a.addr, len |-> a.n, mutbl |-> FALSE, live |-> TRUE]

\* A slip: the mutable view of an array starts one cell before the array.
ArrayAsMutSlice_Shift(a) ==
    [ptr |-> IF a.addr > 0 THEN a.addr - 1 ELSE a.addr, len |-> a.n,
     mutbl |-> TRUE, live |-> TRUE]

\* impl<T, const N: usize> AsMutSlice for [T; N]: self, unsized to &mut [T]
ArrayAsMutSlice(a) == [ptr |-> a.addr, len |-> a.n, mutbl |-> TRUE, live |-> TRUE]

RECURSIVE AsSlice(_, _, _)
RECURSIVE AsMutSlice(_, _, _)
RECURSIVE ImplAsSlice(_, _)
RECURSIVE ImplAsMutSlice(_, _)

\* The view v without its first element.
TailOf(v) == IF v.len > 0 THEN [v EXCEPT !.ptr = @ + 1, !.len = @ - 1] ELSE v

\* The view v without its last element.
ShortOf(v) == IF v.len > 0 THEN [v EXCEPT !.len = @ - 1] ELSE v

\* A slip: the delegation through & loses the first element.
RefAsSlice_Tail(k, b, r) == TailOf(AsSlice(r[k].target, b, r))

\* impl AsSlice for &'a S: (**self).as_slice()
RefAsSlice(k, b, r) == AsSlice(r[k].target, b, r)

\* A slip: the delegation through &mut loses the last element.
MutAsSlice_Short(k, b, r) == ShortOf(AsSlice(r[k].target, b, r))

\* impl AsSlice for &'a mut S: (**self).as_slice()
MutAsSlice(k, b, r) == AsSlice(r[k].target, b, r)

\* A slip: the mutable delegation through &mut loses the first element.
MutAsMutSlice_Tail(k, b, r) == TailOf(AsMutSlice(r[k].target, b, r))

\* impl AsMutSlice for &'a mut S: (**self).as_mut_slice()
MutAsMutSlice(k, b, r) == AsMutSlice(r[k].target, b, r)

\* AsSlice::as_slice on receiver k (0 = the buffer b, k > 0 = reference r[k]).
AsSlice(k, b, r) ==
    IF k = 0
    THEN IF b.kind = "array" THEN ArrayAsSlice(b) ELSE SliceAsSlice(b)
    ELSE IF r[k].mutbl THEN MutAsSlice(k, b, r) ELSE RefAsSlice(k, b, r)

\* A slip: as_mut_slice on a slice is dispatched to a view that has lost its
\* first element.
AsMutSlice_Tail(k, b, r) ==
    IF k = 0
    THEN IF b.kind = "array" THEN ArrayAsMutSlice(b)
                             ELSE TailOf(SliceAsMutSlice(b))
    ELSE MutAsMutSlice(k, b, r)

\* AsMutSlice::as_mut_slice on receiver k; only called where implemented.
AsMutSlice(k, b, r) ==
    IF k = 0
    THEN IF b.kind = "array" THEN ArrayAsMutSlice(b) ELSE SliceAsMutSlice(b)
    ELSE MutAsMutSlice(k, b, r)

\* Whether the type of receiver k implements AsSlice: [T] and [T; N] do,
\* &S and &mut S do where S: AsSlice.
ImplAsSlice(k, r) ==
    IF k = 0 THEN TRUE ELSE ImplAsSlice(r[k].target, r)

\* A slip: AsMutSlice is implemented for &S as it is for &mut S.
ImplAsMutSlice_Ref(k, r) ==
    IF k = 0 THEN TRUE ELSE ImplAsMutSlice(r[k].target, r)

\* Whether the type of receiver k implements AsMutSlice: [T] and [T; N] do,
\* &mut S does where S: AsMutSlice, and there is no implementation for &S.
ImplAsMutSlice(k, r) ==
    IF k = 0 THEN TRUE
    ELSE IF r[k].mutbl THEN ImplAsMutSlice(r[k].target, r) ELSE FALSE

(***************************************************************************)
(* The state machine: a caller that borrows and calls the trait methods.   *)
(***************************************************************************)

Init ==
    /\ mem \in [Addr -> Val]
    /\ direct = mem
    /\ base \in {b \in Arrays \cup Slices : InBounds(b)}
    /\ refs = <<>>
    /\ view = NoView
    /\ op = "init"
    /\ rcv = 0
    /\ widx = 0
    /\ wval = 0
    /\ afterWrite = FALSE
    /\ len0 = LenOf(base)

\* The caller takes & or &mut of the outermost receiver.
Borrow(m) ==
    /\ Len(refs) < MaxDepth
    /\ refs' = Append(refs, [mutbl |-> m, target |-> Len(refs)])
    /\ view' = NoView
    /\ op' = "borrow"
    /\ rcv' = 0 /\ widx' = 0 /\ wval' = 0 /\ afterWrite' = FALSE
    /\ UNCHANGED <<mem, direct, base, len0>>

\* A slip: obtaining the view clears the receiver's storage.
CallAsSlice_Clobber(k) ==
    /\ ImplAsSlice(k, refs)
    /\ view' = AsSlice(k, base, refs)
    /\ mem' = [a \in Addr |-> 0]
    /\ op' = "as_slice"
    /\ rcv' = k
    /\ afterWrite' = (op = "write" /\ rcv = k)
    /\ widx' = (IF afterWrite' THEN widx ELSE 0)
    /\ wval' = (IF afterWrite' THEN wval ELSE 0)
    /\ UNCHANGED <<direct, base, refs, len0>>

\* receiver.as_slice()
CallAsSlice(k) ==
    /\ ImplAsSlice(k, refs)
    /\ view' = AsSlice(k, base, refs)
    /\ op' = "as_slice"
    /\ rcv' = k
    /\ afterWrite' = (op = "write" /\ rcv = k)
    /\ widx' = (IF afterWrite' THEN widx ELSE 0)
    /\ wval' = (IF afterWrite' THEN wval ELSE 0)
    /\ UNCHANGED <<mem, direct, base, refs, len0>>

\* receiver.as_mut_slice(), accepted by the compiler only where implemented
CallAsMutSlice(k) ==
    /\ ImplAsMutSlice(k, refs)
    /\ view' = AsMutSlice(k, base, refs)
    /\ op' = "as_mut_slice"
    /\ rcv' = k
    /\ widx' = 0 /\ wval' = 0 /\ afterWrite' = FALSE
    /\ UNCHANGED <<mem, direct, base, refs, len0>>

\* The receiver a reference receiver delegates to (the buffer is its own).
Referent(k, r) == IF k = 0 THEN 0 ELSE r[k].target

\* view[i] = v through the live mutable view of receiver rcv; the same write
\* made through as_mut_slice() called on the referent of rcv goes to direct.
Write(i, v) ==
    /\ view.live /\ view.mutbl
    /\ i < view.len
    /\ mem' = [mem EXCEPT ![view.ptr + i] = v]
    /\ direct' = [direct EXCEPT
                     ![AsMutSlice(Referent(rcv, refs), base, refs).ptr + i] = v]
    /\ op' = "write"
    /\ widx' = i /\ wval' = v /\ afterWrite' = FALSE
    /\ UNCHANGED <<base, refs, view, rcv, len0>>

Next ==
    \/ \E m \in BOOLEAN : Borrow(m)
    \/ \E k \in 0..Len(refs) : CallAsSlice(k)
    \/ \E k \in 0..Len(refs) : CallAsMutSlice(k)
    \/ \E i \in Addr, v \in Val : Write(i, v)

Spec == Init /\ [][Next]_vars

(***************************************************************************)
(* The properties.                                                         *)
(***************************************************************************)

\* The steps that are calls of as_slice or as_mut_slice.
IsCall == op' \in {"as_slice", "as_mut_slice"}

\* The elements of the buffer b in memory m, in order.
ElemsOf(b, m) == [i \in 1..LenOf(b) |-> ElemOf(b, i - 1, m)]

\* C1: as_slice on an array [T; N] returns a view of length exactly N whose
\* element at each index i in 0..N-1 is the array's element at index i.
C1_ArrayAsSlice ==
    (op = "as_slice" /\ rcv = 0 /\ base.kind = "array") =>
        /\ view.live
        /\ view.len = base.n
        /\ \A i \in 0..(base.n - 1) : ViewIndex(view, i, mem) = ElemOf(base, i, mem)

C1_Witness ==
    /\ op = "as_slice" /\ rcv = 0 /\ base.kind = "array"
    /\ base.n >= 2 /\ base.addr > 0
    /\ mem[base.addr] # mem[base.addr + 1]

\* C2: as_slice on a slice s, the empty slice included, always succeeds and
\* returns a view of s's length with view[i] = s[i] for every valid i; the
\* view of the empty slice has length 0.
C2_SliceAsSlice ==
    /\ base.kind = "slice" => ENABLED CallAsSlice(0)
    /\ (op = "as_slice" /\ rcv = 0 /\ base.kind = "slice") =>
        /\ view.live
        /\ view.len = base.len
        /\ \A i \in 0..(base.len - 1) : ViewIndex(view, i, mem) = ElemOf(base, i, mem)
        /\ base.len = 0 => view.len = 0

C2_Witness ==
    /\ op = "as_slice" /\ rcv = 0 /\ base.kind = "slice"
    /\ base.len = 0 /\ view.live /\ view.len = 0

\* C3: after v is written at index i through the view as_mut_slice returned
\* for an array or slice, as_slice on the same receiver returns a view whose
\* element i is v.
C3_WriteThenRead ==
    (op = "as_slice" /\ afterWrite /\ rcv = 0) =>
        /\ widx < view.len
        /\ ViewIndex(view, widx, mem) = wval

C3_Witness ==
    /\ op = "as_slice" /\ afterWrite /\ rcv = 0
    /\ view.len = 3 /\ widx = 1 /\ wval = 1
    /\ ViewElems(view, mem) = <<0, 1, 0>>

\* C4: as_slice on an immutable reference &R returns a view with the length
\* and the elements of the view as_slice returns for R itself.
C4_RefDelegation ==
    (op = "as_slice" /\ rcv >= 1 /\ ~refs[rcv].mutbl) =>
        /\ view.len = AsSlice(rcv - 1, base, refs).len
        /\ ViewElems(view, mem) = ViewElems(AsSlice(rcv - 1, base, refs), mem)

C4_Witness ==
    /\ op = "as_slice" /\ rcv >= 1 /\ ~refs[rcv].mutbl
    /\ view.len >= 2
    /\ ViewIndex(view, 0, mem) # ViewIndex(view, 1, mem)

\* C5: the writes made through as_mut_slice called on &mut R leave R, as
\* as_slice on R shows it, as the same writes made through as_mut_slice
\* called on R itself leave it.
C5_MutDelegation ==
    (rcv >= 1 /\ op \in {"as_mut_slice", "write"}) =>
        ViewElems(AsSlice(rcv - 1, base, refs), mem)
            = ViewElems(AsSlice(rcv - 1, base, refs), direct)

C5_Witness ==
    /\ op = "write" /\ rcv >= 1 /\ refs[rcv].mutbl
    /\ view.len >= 2 /\ widx = 1 /\ wval = 1
    /\ ViewIndex(view, 0, mem) = 0

\* C6: an immutable reference &R has as_slice and never as_mut_slice, also
\* where R has as_mut_slice; a mutable reference &mut R has as_slice, and
\* as_mut_slice exactly where R has it.
C6_Exclusivity ==
    /\ \A k \in 1..Len(refs) :
          /\ ImplAsSlice(k, refs)
          /\ ~refs[k].mutbl => ~ImplAsMutSlice(k, refs)
          /\ refs[k].mutbl => (ImplAsMutSlice(k, refs) <=> ImplAsMutSlice(k - 1, refs))
    /\ (view.live /\ view.mutbl /\ rcv >= 1) => refs[rcv].mutbl

C6_Witness ==
    /\ Len(refs) = 2 /\ ~refs[1].mutbl /\ refs[2].mutbl
    /\ ImplAsMutSlice(0, refs)
    /\ op = "as_slice" /\ rcv = 1 /\ view.live

\* C7: as_slice on the outermost of two or more reference layers over R, of
\* either mutability, returns a view with the length and the elements of
\* the view as_slice returns for R itself.
C7_NestedDelegation ==
    (op = "as_slice" /\ rcv >= 2) =>
        /\ view.len = AsSlice(0, base, refs).len
        /\ ViewElems(view, mem) = ViewElems(AsSlice(0, base, refs), mem)

C7_Witness ==
    /\ op = "as_slice" /\ rcv >= 2
    /\ refs[1].mutbl # refs[2].mutbl
    /\ view.len >= 2
    /\ ViewIndex(view, 0, mem) # ViewIndex(view, 1, mem)

\* C8: for every receiver that has as_mut_slice, the view as_mut_slice
\* returns has the storage, the length and the elements of the view
\* as_slice returns in the same state.
C8_SameStorage ==
    \A k \in 0..Len(refs) :
        ImplAsMutSlice(k, refs) =>
            /\ AsMutSlice(k, base, refs).ptr = AsSlice(k, base, refs).ptr
            /\ AsMutSlice(k, base, refs).len = AsSlice(k, base, refs).len
            /\ ViewElems(AsMutSlice(k, base, refs), mem)
                   = ViewElems(AsSlice(k, base, refs), mem)
            /\ (op = "as_mut_slice" /\ rcv = k) =>
                   /\ view.ptr = AsSlice(k, base, refs).ptr
                   /\ view.len = AsSlice(k, base, refs).len

C8_Witness ==
    /\ op = "as_mut_slice" /\ rcv >= 1 /\ base.kind = "slice"
    /\ view.len >= 2 /\ view.ptr > 0

\* C9: a call of as_slice or of as_mut_slice leaves the receiver as it was:
\* the buffer, its length, each of its elements and the references.
C9_CallFrame ==
    [][IsCall =>
          /\ base' = base
          /\ refs' = refs
          /\ LenOf(base') = LenOf(base)
          /\ ElemsOf(base', mem') = ElemsOf(base, mem)]_vars

C9_Witness ==
    /\ op = "as_mut_slice" /\ rcv >= 1
    /\ LenOf(base) >= 2
    /\ ElemOf(base, 0, mem) = 1 /\ ElemOf(base, 1, mem) = 1

\* C10: for an array or a slice, whatever calls and writes came before,
\* as_slice reports the length the receiver had at construction, and a write
\* at index i leaves the element at every other index as it was.
C10_LengthAndFrame ==
    /\ []((op = "as_slice" /\ rcv = 0) => view.len = len0)
    /\ [][op' = "write" =>
            \A j \in 0..(len0 - 1) :
                j # widx' => ElemOf(base', j, mem') = ElemOf(base, j, mem)]_vars

C10_Witness ==
    /\ op = "as_slice" /\ afterWrite /\ rcv = 0
    /\ len0 = 2 /\ view.len = 2 /\ widx = 0 /\ wval = 1
    /\ ViewIndex(view, 1, mem) = 0

====
